---- MODULE Spec2Model ----
(***************************************************************************)
(* Model of OEECalculator (src/oee_calculator.py): truncate_events,        *)
(* calculate_prorated_value_added_time and calculate_oee, acting on a      *)
(* caller-held pandas DataFrame.                                           *)
(*                                                                         *)
(* Representation.                                                         *)
(*  - Instants are whole seconds counted from 2024-12-15 07:50:00, so      *)
(*    08:00 = 600, 08:10 = 1200, 08:30 = 2400, 09:00 = 4200,               *)
(*    09:30 = 6000 and 10:00 = 7800.  Every instant and every configured   *)
(*    standard time is a multiple of 300 s.                                *)
(*  - A timestamp cell is a record [kind, t]: kind "str" is a parsable     *)
(*    string as the ingester wrote it, "bad" an unparsable string, "None"  *)
(*    a missing value, "ts" a pandas Timestamp, "NaT" pandas' NaT.         *)
(*  - A DataFrame is a sequence of rows; a row is a record whose fields    *)
(*    are the columns the table has, plus "index", the row's index label.  *)
(*  - The ratios of the returned dict (availability, performance,          *)
(*    quality, oee) are held in thousandths, i.e. round(x, 3) * 1000; the  *)
(*    float divisions are computed as exact rationals.  The time totals    *)
(*    are whole seconds, on which round(x, 2) changes nothing.             *)
(***************************************************************************)
EXTENDS Integers, Sequences, FiniteSets, TLC

VARIABLES operations_df, original, call, outcome, truncated_df, result

vars == <<operations_df, original, call, outcome, truncated_df, result>>

\* Largest number of rows of the caller's event batch.
MaxEvents == 2

-----------------------------------------------------------------------------
(* Cells and rows *)

Str(t) == [kind |-> "str", t |-> t]

Ts(t) == [kind |-> "ts", t |-> t]

NaT == [kind |-> "NaT", t |-> 0]

None == [kind |-> "None", t |-> 0]

Unparsable == [kind |-> "bad", t |-> 0]

Max(a, b) == IF a >= b THEN a ELSE b

Min(a, b) == IF a <= b THEN a ELSE b

\* self.value_added_times as the example sets it (seconds).
value_added_times == [Mixing |-> 900, Heating |-> 1800, Cooling |-> 1200]

RawRow(op, s, e, cat) ==
    [operation |-> op, timestamp_start |-> s, timestamp_end |-> e,
     loss_category |-> cat]

\* Rows the ingester may supply: the first two rows of the example (shifted
\* to the model's origin), an event straddling 08:00, an event shorter than
\* its standard time, ongoing events (end missing or unparsable), an event
\* that ends at 08:00, and one whose start timestamp cannot be parsed.
EventPool ==
    { RawRow("Mixing",   Str(600),  Str(2400), "unplanned_stop"),
      RawRow("Heating",  Str(2400), Str(4200), "speed_loss"),
      RawRow("Mixing",   Str(0),    Str(1200), "unknown_loss"),
      RawRow("Heating",  Str(600),  Str(1200), "small_stop"),
      RawRow("Unlisted", Str(1200), None,      "startup_loss"),
      RawRow("Mixing",   Str(600),  Unparsable, "rework/scrap"),
      RawRow("Cooling",  Str(0),    Str(600),  "planned_stop"),
      RawRow("Cooling",  Unparsable, Str(2400), "speed_loss") }

Operations == {"Mixing", "Heating", "Cooling", "Unlisted"}

\* pd.DataFrame(data): the rows with a RangeIndex 0..n-1.
DataFrame(rows) ==
    [i \in 1..Len(rows) |->
        [index |-> i - 1, operation |-> rows[i].operation,
         timestamp_start |-> rows[i].timestamp_start,
         timestamp_end |-> rows[i].timestamp_end,
         loss_category |-> rows[i].loss_category]]

Batches == UNION {[1..n -> EventPool] : n \in 0..MaxEvents}

\* Windows <<start_time, end_time>> the caller passes: 08:00-10:00 (the
\* example's), 08:00-08:10, 08:10-10:00, the empty window at 08:10 and an
\* inverted one.
Windows ==
    { <<600, 7800>>, <<600, 1200>>, <<1200, 7800>>, <<1200, 1200>>,
      <<7800, 600>> }

\* An overrides mapping is a function on Operations; NoEntry marks an
\* operation that is not a key of the dict.  NoOverrides is None (or {}).
NoEntry == "<no entry>"

NoOverrides == [o \in Operations |-> NoEntry]

OverrideMaps ==
    { NoOverrides,
      [o \in Operations |-> IF o = "Mixing" THEN "speed_loss" ELSE NoEntry],
      [o \in Operations |->
          IF o = "Unlisted" THEN "unplanned_stop"
          ELSE IF o = "Heating" THEN "startup_loss" ELSE NoEntry] }

NoValue == << >>

-----------------------------------------------------------------------------
(* pandas operations used by truncate_events, cell by cell *)

ParseError == [kind |-> "ParseError", t |-> 0]

\* pd.to_datetime on one cell: a parsable string becomes a Timestamp, a
\* missing value NaT; an unparsable string raises, or becomes NaT under
\* errors="coerce".
to_datetime(cell, errors) ==
    CASE cell.kind = "str" -> Ts(cell.t)
      [] cell.kind = "ts" -> cell
      [] cell.kind \in {"None", "NaT"} -> NaT
      [] cell.kind = "bad" -> IF errors = "coerce" THEN NaT ELSE ParseError

\* Series.fillna(value) on one cell.
fillna(cell, value) == IF cell.kind = "NaT" THEN Ts(value) ELSE cell

\* Series.clip(lower=...) on one Timestamp cell.
clip_lower(cell, lower) ==
    IF cell.kind = "ts" THEN Ts(Max(cell.t, lower)) ELSE cell

\* Faulty variant of clip_upper: the end is not clipped to the window.
clip_upper_unclipped(cell, upper) == cell

\* Series.clip(upper=...) on one Timestamp cell.
clip_upper(cell, upper) ==
    IF cell.kind = "ts" THEN Ts(Min(cell.t, upper)) ELSE cell

\* (effective_end - effective_start).dt.total_seconds().clip(lower=0)
effective_duration(effective_start, effective_end) ==
    Max(effective_end.t - effective_start.t, 0)

-----------------------------------------------------------------------------
(* OEECalculator.calculate_prorated_value_added_time *)

calculate_prorated_value_added_time(operation, timestamp_start, timestamp_end, range_start, range_end) ==
    IF operation \notin DOMAIN value_added_times
    THEN 0
    ELSE LET standard_value_added_time == value_added_times[operation]
             expected_end == timestamp_start + standard_value_added_time
             overlap_start == Max(timestamp_start, range_start)
             overlap_end == Min(expected_end, range_end)
         IN  Max(overlap_end - overlap_start, 0)

-----------------------------------------------------------------------------
(* OEECalculator.truncate_events *)

\* The column assignments of lines 49-62 on one row of the caller's table.
AssignColumns(row, start_time, end_time) ==
    LET ts == to_datetime(row.timestamp_start, "raise")
        te == fillna(to_datetime(row.timestamp_end, "coerce"), end_time)
        es == clip_lower(ts, start_time)
        ee == clip_upper(te, end_time)
    IN  [index |-> row.index, operation |-> row.operation,
         loss_category |-> row.loss_category,
         timestamp_start |-> ts, timestamp_end |-> te,
         effective_start |-> es, effective_end |-> ee,
         effective_duration |-> effective_duration(es, ee)]

\* Line 49 raises when a start timestamp cannot be parsed.
StartRaises(df) ==
    \E i \in 1..Len(df) :
        to_datetime(df[i].timestamp_start, "raise") = ParseError

\* The caller's table after lines 49-62: every row rewritten in place.
InPlace(df, start_time, end_time) ==
    [i \in 1..Len(df) |-> AssignColumns(df[i], start_time, end_time)]

Surviving(row) == row.effective_duration > 0

\* Faulty variant of DropZeroDuration: rows outside the window are kept.
KeepAll(df) == df

\* Line 65: a new table holding the rows with effective_duration > 0.
DropZeroDuration(df) == SelectSeq(df, Surviving)

\* Lines 68-73: the prorated column, set on the filtered table.  On a table
\* without rows DataFrame.apply yields an empty Series, and the table
\* stays empty.
WithProrated(df, start_time, end_time) ==
    [i \in 1..Len(df) |->
        [index |-> df[i].index, operation |-> df[i].operation,
         loss_category |-> df[i].loss_category,
         timestamp_start |-> df[i].timestamp_start,
         timestamp_end |-> df[i].timestamp_end,
         effective_start |-> df[i].effective_start,
         effective_end |-> df[i].effective_end,
         effective_duration |-> df[i].effective_duration,
         prorated_value_added_time |->
            calculate_prorated_value_added_time(
                df[i].operation, df[i].timestamp_start.t,
                df[i].timestamp_end.t, start_time, end_time)]]

\* truncate_events: what it leaves in the caller's table (caller), and what
\* it returns (returned), or that it raised.
truncate_events(df, start_time, end_time) ==
    IF StartRaises(df)
    THEN [raised |-> TRUE, caller |-> df, returned |-> << >>]
    ELSE LET assigned == InPlace(df, start_time, end_time)
         IN  [raised |-> FALSE, caller |-> assigned,
              returned |-> WithProrated(DropZeroDuration(assigned),
                                        start_time, end_time)]

-----------------------------------------------------------------------------
(* OEECalculator.calculate_oee *)

AvailabilityCategories == {"unplanned_stop", "planned_stop"}

PerformanceCategories == {"small_stop", "speed_loss"}

QualityCategories == {"rework/scrap", "startup_loss"}

\* Faulty variant of MapOverrides: the mapping is ignored.
KeepCategory(row, overrides) == row.loss_category

\* Line 129: operation.map(overrides).fillna(loss_category).
MapOverrides(row, overrides) ==
    IF overrides[row.operation] # NoEntry
    THEN overrides[row.operation]
    ELSE row.loss_category

\* Lines 128-129, on the table truncate_events returned.
ApplyOverrides(df, overrides) ==
    IF overrides = NoOverrides
    THEN df
    ELSE [i \in 1..Len(df) |->
            [df[i] EXCEPT !.loss_category = MapOverrides(df[i], overrides)]]

RECURSIVE SumDuration(_, _)
\* df.loc[df.loss_category.isin(categories), "effective_duration"].sum()
SumDuration(df, categories) ==
    IF Len(df) = 0 THEN 0
    ELSE (IF Head(df).loss_category \in categories
          THEN Head(df).effective_duration ELSE 0)
         + SumDuration(Tail(df), categories)

RECURSIVE SumProrated(_)
\* df["prorated_value_added_time"].sum()
SumProrated(df) ==
    IF Len(df) = 0 THEN 0
    ELSE Head(df).prorated_value_added_time + SumProrated(Tail(df))

\* All instants are multiples of 300 s; ratios are formed on the quotients.
Ticks(seconds) == seconds \div 300

\* round(num / den, 3) in thousandths, ties to even; den > 0, num >= 0.
Round3(num, den) ==
    LET q == (1000 * num) \div den
        r == (1000 * num) % den
    IN  IF 2 * r < den THEN q
        ELSE IF 2 * r > den THEN q + 1
        ELSE IF q % 2 = 0 THEN q ELSE q + 1

\* Faulty variant of total_time: the sum of the surviving events' durations.
SumOfDurations(df, start_time, end_time) ==
    SumDuration(df, {df[i].loss_category : i \in 1..Len(df)})

\* Line 142: the window span, whatever the table holds.
total_time(df, start_time, end_time) == end_time - start_time

\* Faulty variant of ClampAtZero: no floor.
Unclamped(value) == value

\* max(x, 0) of lines 161-163, on the numerator of x = value / total_time.
ClampAtZero(value) == Max(value, 0)

\* Lines 141-178: the dict returned for a non-empty truncated table.
Compose(df, start_time, end_time) ==
    LET total == total_time(df, start_time, end_time)
        availability_losses == SumDuration(df, AvailabilityCategories)
        performance_losses == SumDuration(df, PerformanceCategories)
        quality_losses == SumDuration(df, QualityCategories)
        value_added_time == SumProrated(df)
        d == Ticks(total)
        a == IF total > 0 THEN ClampAtZero(Ticks(total - availability_losses)) ELSE 0
        p == IF total > 0 THEN ClampAtZero(Ticks(total - performance_losses)) ELSE 0
        q == IF total > 0 THEN ClampAtZero(Ticks(total - quality_losses)) ELSE 0
    IN  [availability |-> IF total > 0 THEN Round3(a, d) ELSE 0,
         performance |-> IF total > 0 THEN Round3(p, d) ELSE 0,
         quality |-> IF total > 0 THEN Round3(q, d) ELSE 0,
         oee |-> IF total > 0 THEN Round3(a * p * q, d * d * d) ELSE 0,
         value_added_time |-> value_added_time,
         availability_losses |-> availability_losses,
         performance_losses |-> performance_losses,
         quality_losses |-> quality_losses,
         total_time |-> total]

\* Lines 134-139.
ZeroMetrics == [availability |-> 0, performance |-> 0, quality |-> 0, oee |-> 0]

\* Faulty variant of empty: the early return of lines 132-139 is never taken.
NeverEmpty(df) == FALSE

\* Line 132: truncated_df.empty.
empty(df) == Len(df) = 0

\* calculate_oee: the caller's table afterwards, the local truncated_df
\* after the overrides, and the dict returned (or that it raised).
calculate_oee(df, start_time, end_time, overrides) ==
    LET t == truncate_events(df, start_time, end_time)
        overridden == ApplyOverrides(t.returned, overrides)
    IN  IF t.raised
        THEN [raised |-> TRUE, caller |-> t.caller, truncated |-> << >>,
              dict |-> NoValue]
        ELSE [raised |-> FALSE, caller |-> t.caller, truncated |-> overridden,
              dict |-> IF empty(overridden)
                       THEN ZeroMetrics
                       ELSE Compose(overridden, start_time, end_time)]

-----------------------------------------------------------------------------
(* The caller: one event batch, one calculator, any sequence of calls *)

NoCall == [name |-> "none", start_time |-> 0, end_time |-> 0,
           overrides |-> NoOverrides]

Init ==
    /\ operations_df \in {DataFrame(b) : b \in Batches}
    /\ original = operations_df
    /\ call = NoCall
    /\ outcome = "none"
    /\ truncated_df = << >>
    /\ result = NoValue

\* calculator.truncate_events(operations_df, start_time, end_time)
TruncateEvents(start_time, end_time) ==
    LET r == truncate_events(operations_df, start_time, end_time)
    IN  /\ call' = [name |-> "truncate_events", start_time |-> start_time,
                    end_time |-> end_time, overrides |-> NoOverrides]
        /\ operations_df' = r.caller
        /\ outcome' = IF r.raised THEN "ParseError" ELSE "returned"
        /\ truncated_df' = r.returned
        /\ result' = NoValue
        /\ UNCHANGED original

\* calculator.calculate_oee(operations_df, start_time, end_time, overrides)
CalculateOee(start_time, end_time, overrides) ==
    LET r == calculate_oee(operations_df, start_time, end_time, overrides)
    IN  /\ call' = [name |-> "calculate_oee", start_time |-> start_time,
                    end_time |-> end_time, overrides |-> overrides]
        /\ operations_df' = r.caller
        /\ outcome' = IF r.raised THEN "ParseError" ELSE "returned"
        /\ truncated_df' = r.truncated
        /\ result' = r.dict
        /\ UNCHANGED original

Next ==
    \/ \E w \in Windows : TruncateEvents(w[1], w[2])
    \/ \E w \in Windows, o \in OverrideMaps : CalculateOee(w[1], w[2], o)

Spec == Init /\ [][Next]_vars

\* A caller that only ever calls calculate_oee.
OeeCalls == \E w \in Windows, o \in OverrideMaps : CalculateOee(w[1], w[2], o)

SpecOeeOnly == Init /\ [][OeeCalls]_vars

-----------------------------------------------------------------------------
(* Vocabulary of the properties *)

\* The event of a row as the call receives it: its start, and its end with
\* a missing or unparsable end timestamp replaced by the window's end.
EventStart(row) == row.timestamp_start.t

EventEnd(row, end_time) ==
    IF row.timestamp_end.kind \in {"str", "ts"}
    THEN row.timestamp_end.t
    ELSE end_time

Returned == outcome = "returned"

OeeReturned == call.name = "calculate_oee" /\ outcome = "returned"

\* calculate_oee returned the nine-key dict (some event survived).
FullResult == OeeReturned /\ Len(truncated_df) > 0

WellFormedStarts == \A i \in 1..Len(original) : original[i].timestamp_start.kind = "str"

\* x1000 is num / den rounded to three decimals, in thousandths.
IsRounded(x1000, num, den) ==
    LET diff == x1000 * den - 1000 * num
    IN  2 * diff <= den /\ 2 * diff >= 0 - den

RECURSIVE ExpectedLoss(_, _, _)
\* Sum of the effective durations of rows 1..n of the caller's table whose
\* final category (the override of the row's operation if the mapping has
\* one, else the category the ingester gave) lies in categories.
ExpectedLoss(n, categories, overrides) ==
    IF n = 0 THEN 0
    ELSE LET op == original[n].operation
             final == IF overrides[op] # NoEntry THEN overrides[op]
                      ELSE original[n].loss_category
         IN  (IF final \in categories /\ operations_df[n].effective_duration > 0
              THEN operations_df[n].effective_duration ELSE 0)
             + ExpectedLoss(n - 1, categories, overrides)

RECURSIVE DurationOf(_, _)
\* Sum of the effective durations of rows 1..n whose operation is op.
DurationOf(n, op) ==
    IF n = 0 THEN 0
    ELSE (IF original[n].operation = op
          THEN operations_df[n].effective_duration ELSE 0)
         + DurationOf(n - 1, op)

Remove(df, i) == SubSeq(df, 1, i - 1) \o SubSeq(df, i + 1, Len(df))

MixingToSpeedLoss ==
    [o \in Operations |-> IF o = "Mixing" THEN "speed_loss" ELSE NoEntry]

-----------------------------------------------------------------------------
(* Properties *)

\* C1: in every call that returns, each row's effective_start is
\* max(event start, start_time), its effective_end is min(event end,
\* end_time) with a missing or unparsable end first replaced by end_time,
\* and its effective_duration is max(0, effective_end - effective_start);
\* an event fully inside the window keeps its raw duration, and the table
\* returned carries the same durations.
C1_TruncationClipsToWindow ==
    [][ outcome' = "returned" =>
          /\ \A i \in 1..Len(operations_df) :
                LET s == EventStart(operations_df[i])
                    e == EventEnd(operations_df[i], call'.end_time)
                    lo == IF s >= call'.start_time THEN s ELSE call'.start_time
                    hi == IF e <= call'.end_time THEN e ELSE call'.end_time
                    after == operations_df'[i]
                IN  /\ after.effective_start = Ts(lo)
                    /\ after.effective_end = Ts(hi)
                    /\ after.effective_duration = (IF hi - lo > 0 THEN hi - lo ELSE 0)
                    /\ (call'.start_time <= s /\ s <= e /\ e <= call'.end_time)
                          => after.effective_duration = e - s
          /\ \A j \in 1..Len(truncated_df') :
                \E i \in 1..Len(operations_df') :
                    /\ operations_df'[i].index = truncated_df'[j].index
                    /\ operations_df'[i].effective_duration =
                          truncated_df'[j].effective_duration
      ]_vars

\* The event [07:50, 08:10) against the window [08:00, 10:00) got 600 s, and
\* an event fully inside the window kept its 1800 s.
C1_Witness ==
    /\ Returned
    /\ call.start_time = 600 /\ call.end_time = 7800
    /\ \E i \in 1..Len(operations_df) :
          /\ original[i].timestamp_start = Str(0)
          /\ original[i].timestamp_end = Str(1200)
          /\ operations_df[i].effective_start = Ts(600)
          /\ operations_df[i].effective_end = Ts(1200)
          /\ operations_df[i].effective_duration = 600
    /\ \E j \in 1..Len(truncated_df) :
          /\ truncated_df[j].timestamp_start = Ts(600)
          /\ truncated_df[j].timestamp_end = Ts(2400)
          /\ truncated_df[j].effective_duration = 1800

\* C2: every surviving event of a configured operation has
\* prorated_value_added_time = min(S, effective_duration), and every
\* surviving event of an operation without configuration entry has 0.
C2_ProratedIsMinOfStandardAndDuration ==
    Returned =>
        \A j \in 1..Len(truncated_df) :
            LET row == truncated_df[j]
            IN  IF row.operation \in DOMAIN value_added_times
                THEN row.prorated_value_added_time =
                        Min(value_added_times[row.operation], row.effective_duration)
                ELSE row.prorated_value_added_time = 0

\* C3: prorated_value_added_time is never negative and never exceeds
\* min(configured standard time, effective_duration).
C3_ProratedWithinDurationAndStandard ==
    Returned =>
        \A j \in 1..Len(truncated_df) :
            LET row == truncated_df[j]
            IN  /\ row.prorated_value_added_time >= 0
                /\ row.operation \in DOMAIN value_added_times =>
                      /\ row.prorated_value_added_time <= value_added_times[row.operation]
                      /\ row.prorated_value_added_time <= row.effective_duration

\* C4: an event lying entirely outside the window (it ends at or before
\* start_time, or starts at or after end_time) gets effective_duration 0,
\* is absent from the truncated table, and calculate_oee returns what it
\* returns for the same batch without that event.
C4_OutsideEventsExcluded ==
    [][ (call'.name = "calculate_oee" /\ outcome' = "returned") =>
          \A i \in 1..Len(operations_df) :
              (\/ EventEnd(operations_df[i], call'.end_time) <= call'.start_time
               \/ EventStart(operations_df[i]) >= call'.end_time)
              => /\ operations_df'[i].effective_duration = 0
                 /\ \A j \in 1..Len(truncated_df') :
                        truncated_df'[j].index # operations_df[i].index
                 /\ result' = calculate_oee(Remove(operations_df, i),
                                            call'.start_time, call'.end_time,
                                            call'.overrides).dict
      ]_vars

\* An event that ended at 08:00 was dropped from a batch whose other event
\* survived the window [08:00, 10:00).
C4_Witness ==
    /\ FullResult
    /\ call.start_time = 600 /\ call.end_time = 7800
    /\ \E i \in 1..Len(operations_df) :
          /\ operations_df[i].timestamp_end = Ts(600)
          /\ operations_df[i].effective_duration = 0
          /\ \A j \in 1..Len(truncated_df) :
                truncated_df[j].index # operations_df[i].index

\* C5: each surviving event's effective_duration is added to exactly the
\* loss sum of its final category: availability_losses for unplanned_stop
\* and planned_stop, performance_losses for small_stop and speed_loss,
\* quality_losses for rework/scrap and startup_loss, none otherwise; the
\* final category is the override of the event's operation when the mapping
\* has that key and the original category otherwise, so overriding Mixing
\* events from unknown_loss to speed_loss raises performance_losses by their
\* effective durations and leaves the other two sums unchanged.
C5_LossAggregation ==
    FullResult =>
        LET n == Len(operations_df)
            plain == calculate_oee(operations_df, call.start_time,
                                   call.end_time, NoOverrides).dict
        IN  /\ result.availability_losses =
                  ExpectedLoss(n, {"unplanned_stop", "planned_stop"}, call.overrides)
            /\ result.performance_losses =
                  ExpectedLoss(n, {"small_stop", "speed_loss"}, call.overrides)
            /\ result.quality_losses =
                  ExpectedLoss(n, {"rework/scrap", "startup_loss"}, call.overrides)
            /\ ( /\ call.overrides = MixingToSpeedLoss
                 /\ \A i \in 1..n : original[i].operation = "Mixing"
                                       => original[i].loss_category = "unknown_loss" )
               => /\ result.performance_losses =
                        plain.performance_losses + DurationOf(n, "Mixing")
                  /\ result.availability_losses = plain.availability_losses
                  /\ result.quality_losses = plain.quality_losses

\* With Mixing overridden to speed_loss, the Mixing event [07:50, 08:10)
\* tagged unknown_loss put its 600 s into performance_losses.
C5_Witness ==
    /\ FullResult
    /\ call.overrides = MixingToSpeedLoss
    /\ call.start_time = 600 /\ call.end_time = 7800
    /\ Len(original) = 1
    /\ original[1].operation = "Mixing"
    /\ original[1].loss_category = "unknown_loss"
    /\ result.performance_losses = 600
    /\ result.availability_losses = 0
    /\ result.quality_losses = 0

\* C6: when some event survives, total_time is end_time - start_time,
\* availability = max(0, (total_time - availability_losses) / total_time),
\* performance = max(0, 1 - performance_losses / total_time), quality =
\* max(0, 1 - quality_losses / total_time), each rounded to three decimals,
\* and oee is the rounded product of the three unrounded ratios; the single
\* event Mixing [08:00, 08:30) unplanned_stop in [08:00, 10:00) yields
\* 1800 / 900 / 7200 and 0.75, 1, 1, 0.75.
C6_Composition ==
    FullResult =>
        LET T == call.end_time - call.start_time
            av == IF T - result.availability_losses > 0
                  THEN T - result.availability_losses ELSE 0
            pf == IF T - result.performance_losses > 0
                  THEN T - result.performance_losses ELSE 0
            ql == IF T - result.quality_losses > 0
                  THEN T - result.quality_losses ELSE 0
        IN  /\ T > 0
            /\ result.total_time = T
            /\ IsRounded(result.availability, av, T)
            /\ IsRounded(result.performance, pf, T)
            /\ IsRounded(result.quality, ql, T)
            /\ IsRounded(result.oee, (av \div 300) * (pf \div 300) * (ql \div 300),
                         (T \div 300) * (T \div 300) * (T \div 300))
            /\ ( /\ original = DataFrame(<<RawRow("Mixing", Str(600), Str(2400),
                                                  "unplanned_stop")>>)
                 /\ call.start_time = 600 /\ call.end_time = 7800
                 /\ call.overrides = NoOverrides )
               => result = [availability |-> 750, performance |-> 1000,
                            quality |-> 1000, oee |-> 750,
                            value_added_time |-> 900,
                            availability_losses |-> 1800,
                            performance_losses |-> 0, quality_losses |-> 0,
                            total_time |-> 7200]

\* The example's call on the single Mixing event returned with oee 0.75.
C6_Witness ==
    /\ FullResult
    /\ original = DataFrame(<<RawRow("Mixing", Str(600), Str(2400), "unplanned_stop")>>)
    /\ call.start_time = 600 /\ call.end_time = 7800
    /\ call.overrides = NoOverrides
    /\ result.availability_losses = 1800
    /\ result.oee = 750

\* C7: for a window with start_time < end_time, each of availability,
\* performance, quality and oee returned by calculate_oee lies in [0, 1].
C7_RatiosInUnitInterval ==
    (OeeReturned /\ call.start_time < call.end_time) =>
        /\ 0 <= result.availability /\ result.availability <= 1000
        /\ 0 <= result.performance /\ result.performance <= 1000
        /\ 0 <= result.quality /\ result.quality <= 1000
        /\ 0 <= result.oee /\ result.oee <= 1000

\* Overlapping events put more availability loss than the window is long,
\* and availability came out 0.
C7_Witness ==
    /\ FullResult
    /\ call.start_time < call.end_time
    /\ result.availability_losses > result.total_time
    /\ result.availability = 0
    /\ result.performance = 1000

C9_CallerBatchUnchanged ==
    [][ operations_df' = operations_df ]_vars

\* C10: the result of every calculate_oee call for a window equals the
\* result of a single first call for that window on the original batch.
C10_ResultIndependentOfEarlierCalls ==
    OeeReturned =>
        result = calculate_oee(original, call.start_time, call.end_time,
                               call.overrides).dict

====
